---- MODULE Spec2Model ----
(***************************************************************************)
(* Model of compute_features.py (Capstone-Feature-LSTM).                   *)
(*                                                                         *)
(* Four specifications, one per unit of the file:                          *)
(*   Spec        the main block dispatching load_seq_save_features workers *)
(*   SpecMerge   merge_saved_features on a scratch directory               *)
(*   SpecSocial  compute_features on one scene                             *)
(*   SpecVel     compute_vel_track on one track                            *)
(*                                                                         *)
(* Python values that matter are modelled by what the interpreter does     *)
(* with them: a statement that raises ends the function with that          *)
(* exception.  File names are sequences of characters so that endswith,    *)
(* split, int() and the f-string that names a batch file are computed.     *)
(*                                                                         *)
(* The definition of merge_saved_features is commented out in this         *)
(* revision of the file (lines 363-385) while the main block still calls   *)
(* it (line 422).  SpecMerge models the body as it is written there; Spec  *)
(* stops the main block at that call.                                      *)
(***************************************************************************)
EXTENDS Integers, Sequences, FiniteSets, TLC

VARIABLES
    \* ---- main block and workers
    sequences,            \* os.listdir(args.data_dir)
    batch_size,           \* args.batch_size
    small,                \* args.small
    social_test,          \* args.social_test
    features_small_size,  \* _FEATURES_SMALL_SIZE (utils.baseline_config)
    mode,                 \* args.mode
    main_pc,              \* position of the main block
    workers,              \* start index -> state of that load_seq_save_features call
    scratch,              \* temp_save_dir: file name -> rows of the pickled DataFrame
    \* ---- merge_saved_features
    m_initial,            \* batch_save_dir as the call found it (history)
    m_scratch,            \* batch_save_dir
    m_pc,
    feature_files,        \* os.listdir(batch_save_dir)
    m_k,                  \* position of the for loop in feature_files
    all_features,         \* list of DataFrames read so far, each tagged with its file
    m_final,              \* the file feature_dir/forecasting_features_<mode>.pkl
    m_crashes,            \* number of times the merge was interrupted
    m_reads,              \* file name -> pd.read_pickle calls of the current invocation
    m_removed,            \* files removed by the current invocation
    \* ---- compute_features
    cf,                   \* frame of one compute_features call
    cf_overlap,           \* the track ids utils.capstone_utils.doOverlap accepts
    \* ---- compute_vel_track
    vt                    \* frame of one compute_vel_track call

vars == << sequences, batch_size, small, social_test, features_small_size, mode,
           main_pc, workers, scratch,
           m_initial, m_scratch, m_pc, feature_files, m_k, all_features, m_final,
           m_crashes, m_reads, m_removed,
           cf, cf_overlap, vt >>

pipeVars == << sequences, batch_size, small, social_test, features_small_size,
               main_pc, workers, scratch >>
mergeVars == << m_initial, m_scratch, m_pc, feature_files, m_k, all_features,
                m_final, m_crashes, m_reads, m_removed >>

----------------------------------------------------------------------------
(* Bounds of the model *)

MaxFiles == 3
MaxBatch == 2
MaxSmall == 2
MaxTotal == 3
MaxCrashes == 1
MaxRows == 3
MaxObs == 3
MaxTime == 2

----------------------------------------------------------------------------
(* Strings *)

Digits == << "0", "1", "2", "3", "4", "5", "6", "7", "8", "9" >>

DotCsv == << ".", "c", "s", "v" >>
DotPkl == << ".", "p", "k", "l" >>

\* str.endswith
EndsWith(s, suf) ==
    /\ Len(s) >= Len(suf)
    /\ SubSeq(s, Len(s) - Len(suf) + 1, Len(s)) = suf

\* `sub in s` for strings
Contains(s, sub) ==
    \E i \in 1..(Len(s) - Len(sub) + 1) : SubSeq(s, i, i + Len(sub) - 1) = sub

\* s.split(".")[0]: the text before the first dot, the whole of s when it has none
SplitDot0(s) ==
    LET dots == { i \in 1..Len(s) : s[i] = "." }
    IN  IF dots = {} THEN s
        ELSE SubSeq(s, 1, (CHOOSE i \in dots : \A j \in dots : i <= j) - 1)

DigitVal(c) == (CHOOSE d \in 1..10 : Digits[d] = c) - 1

RECURSIVE DecimalValue(_)
DecimalValue(s) ==
    IF s = << >> THEN 0
    ELSE 10 * DecimalValue(SubSeq(s, 1, Len(s) - 1)) + DigitVal(s[Len(s)])

\* str(n) for n >= 0
RECURSIVE Decimal(_)
Decimal(n) ==
    IF n < 10 THEN << Digits[n + 1] >>
    ELSE Decimal(n \div 10) \o << Digits[(n % 10) + 1] >>

----------------------------------------------------------------------------
(* Outcomes of a call *)

NoneValue == [ty |-> "NoneType", items |-> << >>]

Return(v) == [kind |-> "return", exc |-> "", line |-> 0, value |-> v]
Raise(e, l) == [kind |-> "raise", exc |-> e, line |-> l, value |-> NoneValue]

\* int(text) on the characters the model uses (digits, letters, dots)
PyInt(text) ==
    IF text # << >> /\ \A i \in 1..Len(text) : \E d \in 1..10 : Digits[d] = text[i]
    THEN Return([ty |-> "int", items |-> << DecimalValue(text) >>])
    ELSE Raise("ValueError", 105)

\* a range that rounds the number of batches down and so drops a shorter last batch
PyRangeMutant(start, stop, step) ==
    [ j \in 1..(IF stop > start THEN (stop - start) \div step ELSE 0)
        |-> start + (j - 1) * step ]

\* range(start, stop, step) as the ascending sequence of its members, step >= 1
PyRange(start, stop, step) ==
    [ j \in 1..(IF stop > start THEN (stop - start + step - 1) \div step ELSE 0)
        |-> start + (j - 1) * step ]

\* the (0-based) indices of lst[lo:hi] for a list of n items, 0 <= lo <= hi
PySliceIdx(n, lo, hi) ==
    LET a == IF lo > n THEN n ELSE lo
        b == IF hi > n THEN n ELSE hi
    IN  [ j \in 1..(IF b > a THEN b - a ELSE 0) |-> a + j - 1 ]

SeqRange(s) == { s[i] : i \in 1..Len(s) }

----------------------------------------------------------------------------
(* compute_features: one call, statement by statement *)

Types == { "AV", "AGENT", "OTHERS" }
TrackIds == 1..3

\* list(dict.fromkeys(values)): first occurrences, in order
RECURSIVE Dedupe(_)
Dedupe(s) ==
    IF s = << >> THEN << >>
    ELSE LET init == Dedupe(SubSeq(s, 1, Len(s) - 1))
         IN  IF s[Len(s)] \in SeqRange(init) THEN init ELSE Append(init, s[Len(s)])

CfFrame(social, df) ==
    [pc |-> "L198", social_test |-> social, df |-> df, agent_ids |-> << >>,
     av_id |-> 0, drop_counter |-> 0, out |-> Return(NoneValue)]

CfStep(f) ==
    CASE f.pc = "L198" ->
            \* df = pd.read_csv(...); if args.social_test:
            [f EXCEPT !.pc = IF f.social_test THEN "L202" ELSE "L329"]
      [] f.pc = "L202" ->
            \* agent_ids = list(dict.fromkeys(df["TRACK_ID"].values))
            [f EXCEPT !.agent_ids = Dedupe([i \in 1..Len(f.df) |-> f.df[i].TRACK_ID]),
                      !.pc = "L211"]
      [] f.pc = "L211" ->
            \* av_id = df.loc[df['OBJECT_TYPE'] == 'AV', 'TRACK_ID'].iloc[0]
            LET av == { i \in 1..Len(f.df) : f.df[i].OBJECT_TYPE = "AV" }
            IN  IF av = {}
                THEN [f EXCEPT !.pc = "raised", !.out = Raise("IndexError", 211)]
                ELSE [f EXCEPT !.av_id =
                                  f.df[CHOOSE i \in av : \A j \in av : i <= j].TRACK_ID,
                               !.pc = "L214"]
      [] f.pc = "L214" ->
            \* av_track = df_copy[...]: df_copy is a local of compute_features
            \* (assigned at line 293) and has no value yet
            [f EXCEPT !.pc = "raised", !.out = Raise("UnboundLocalError", 214)]
      [] f.pc = "L329" ->
            \* agent_track, social_features = compute_social_features(...); the
            \* function ends here: its return statement is commented out
            [f EXCEPT !.pc = "returned", !.out = Return(NoneValue)]
      [] OTHER -> f

CfDone(f) == f.pc \in { "raised", "returned" }

RECURSIVE CfRun(_)
CfRun(f) == IF CfDone(f) THEN f ELSE CfRun(CfStep(f))

\* the contents of a scene file of the data set: an AV track and an AGENT track
SceneOf(seq) ==
    << [TRACK_ID |-> 1, OBJECT_TYPE |-> "AV"], [TRACK_ID |-> 2, OBJECT_TYPE |-> "AGENT"] >>

ComputeFeatures(social, df) == CfRun(CfFrame(social, df)).out

----------------------------------------------------------------------------
(* load_seq_save_features *)

\* a batch file name that leaves the start index out
FileNameMutant(m, start, bs) ==
    << "forecasting_features_" >> \o m \o << "_" >> \o Decimal(bs) \o DotPkl

\* f"{save_dir}/forecasting_features_{args.mode}_{start_idx}_{start_idx + args.batch_size}.pkl"
FileName(m, start, bs) ==
    << "forecasting_features_" >> \o m \o << "_" >> \o Decimal(start)
        \o << "_" >> \o Decimal(start + bs) \o DotPkl

\* the for loop over the batch slice, from position k on
RECURSIVE ProcessSlice(_, _, _, _, _)
ProcessSlice(slice, k, data, count, social) ==
    IF k > Len(slice)
    THEN [pc |-> "done", data |-> data, count |-> count, exc |-> "", at |-> 0]
    ELSE LET seq == slice[k] IN
         IF ~EndsWith(seq, DotCsv)
         THEN ProcessSlice(slice, k + 1, data, count, social)
         ELSE LET seq_id == PyInt(SplitDot0(seq)) IN
              IF seq_id.kind = "raise"
              THEN [pc |-> "failed", data |-> data, count |-> count,
                    exc |-> seq_id.exc, at |-> k]
              ELSE LET r == ComputeFeatures(social, SceneOf(seq)) IN
                   IF r.kind = "raise"
                   THEN [pc |-> "failed", data |-> data, count |-> count,
                         exc |-> r.exc, at |-> k]
                   ELSE IF ~(r.value.ty = "tuple" /\ Len(r.value.items) = 2)
                   THEN \* features, map_feature_helpers = <not a pair>
                        [pc |-> "failed", data |-> data, count |-> count,
                         exc |-> "TypeError", at |-> k]
                   ELSE ProcessSlice(slice, k + 1,
                            Append(data, [SEQUENCE |-> seq_id.value.items[1],
                                          FEATURES |-> r.value.items[1]]),
                            count + 1, social)

IdleWorker ==
    [pc |-> "idle", idx |-> << >>, data |-> << >>, count |-> 0, exc |-> "", at |-> 0]

\* os.makedirs + data_df.to_pickle
WriteFile(dir, name, rows) ==
    [ n \in DOMAIN dir \cup { name } |-> IF n = name THEN rows ELSE dir[n] ]

Names ==
    { << "1" >> \o DotCsv, << "1", "2" >> \o DotCsv, << "a" >> \o DotCsv,
      << "3", ".", "t", "x", "t" >> }

Modes == { << "v", "a", "l" >>, << "t", "e", "s", "t" >> }

Listings(n) ==
    UNION { { s \in [1..k -> Names] : \A i, j \in 1..k : i # j => s[i] # s[j] }
            : k \in 0..n }

EmptyDir == [ n \in {} |-> << >> ]

MergeIdle ==
    /\ m_initial = EmptyDir
    /\ m_scratch = EmptyDir
    /\ m_pc = "idle"
    /\ feature_files = << >>
    /\ m_k = 0
    /\ all_features = << >>
    /\ m_final = [exists |-> FALSE, rows |-> << >>, files |-> << >>]
    /\ m_crashes = 0
    /\ m_reads = EmptyDir
    /\ m_removed = {}

PipeIdle ==
    /\ sequences = << >>
    /\ batch_size = 1
    /\ small = FALSE
    /\ social_test = FALSE
    /\ features_small_size = 1
    /\ main_pc = "idle"
    /\ workers = << >>
    /\ scratch = EmptyDir

CfIdle ==
    /\ cf = [CfFrame(FALSE, << >>) EXCEPT !.pc = "idle"]
    /\ cf_overlap = {}

VtIdleFrame ==
    [pc |-> "idle", av_track |-> << >>, obs_len |-> 0, i |-> 0,
     av_velocities |-> << >>, out |-> Return(NoneValue)]

VtIdle == vt = VtIdleFrame

Init ==
    /\ sequences \in Listings(MaxFiles)
    /\ batch_size \in 1..MaxBatch
    /\ small \in BOOLEAN
    /\ social_test \in BOOLEAN
    /\ features_small_size \in 1..MaxSmall
    /\ mode \in Modes
    /\ main_pc = "dispatch"
    /\ workers = << >>
    /\ scratch = EmptyDir
    /\ MergeIdle /\ CfIdle /\ VtIdle

\* num_sequences = _FEATURES_SMALL_SIZE if args.small else len(sequences);
\* Parallel(...)(delayed(load_seq_save_features)(i, ...) for i in range(0, num_sequences, batch_size))
Dispatch ==
    /\ main_pc = "dispatch"
    /\ LET num_sequences == IF small THEN features_small_size ELSE Len(sequences)
           starts == PyRange(0, num_sequences, batch_size)
       IN  workers' = [ s \in SeqRange(starts) |-> IdleWorker ]
    /\ main_pc' = "parallel"
    /\ UNCHANGED << sequences, batch_size, small, social_test, features_small_size,
                    mode, scratch, mergeVars, cf, cf_overlap, vt >>

\* one call load_seq_save_features(start_idx, sequences, temp_save_dir, ...)
WorkerRun(start_idx) ==
    /\ main_pc = "parallel"
    /\ start_idx \in DOMAIN workers
    /\ workers[start_idx].pc = "idle"
    /\ LET idx == PySliceIdx(Len(sequences), start_idx, start_idx + batch_size)
           slice == [ j \in 1..Len(idx) |-> sequences[idx[j] + 1] ]
           r == ProcessSlice(slice, 1, << >>, 0, social_test)
       IN  /\ workers' = [workers EXCEPT ![start_idx] =
                             [pc |-> r.pc, idx |-> idx, data |-> r.data,
                              count |-> r.count, exc |-> r.exc, at |-> r.at]]
           /\ scratch' = IF r.pc = "done"
                         THEN WriteFile(scratch, FileName(mode, start_idx, batch_size),
                                        r.data)
                         ELSE scratch
    /\ UNCHANGED << sequences, batch_size, small, social_test, features_small_size,
                    mode, main_pc, mergeVars, cf, cf_overlap, vt >>

\* Parallel returns, or re-raises a worker's exception; then the branch on social_test
MainJoin ==
    /\ main_pc = "parallel"
    /\ \A s \in DOMAIN workers : workers[s].pc # "idle"
    /\ main_pc' = IF \E s \in DOMAIN workers : workers[s].pc = "failed" THEN "raised"
                  ELSE IF social_test THEN "done"
                  ELSE "merge"
    /\ UNCHANGED << sequences, batch_size, small, social_test, features_small_size,
                    mode, workers, scratch, mergeVars, cf, cf_overlap, vt >>

Next ==
    \/ Dispatch
    \/ \E s \in 0..(MaxFiles + MaxSmall) : WorkerRun(s)
    \/ MainJoin

Spec == Init /\ [][Next]_vars

----------------------------------------------------------------------------
(* merge_saved_features(batch_save_dir), as written at lines 363-385 *)

RECURSIVE ListingOrders(_)
ListingOrders(S) ==
    IF S = {} THEN { << >> }
    ELSE UNION { { << x >> \o p : p \in ListingOrders(S \ { x }) } : x \in S }

\* a merge that leaves the file it has read in place
RemoveFileMutant(dir, name) == dir

\* os.remove(file_path)
RemoveFile(dir, name) == [ n \in DOMAIN dir \ { name } |-> dir[n] ]

\* pd.concat(all_features, ignore_index=True): the rows of the frames, in list order
RECURSIVE ConcatRows(_)
ConcatRows(frames) ==
    IF frames = << >> THEN << >>
    ELSE frames[1].rows \o ConcatRows(Tail(frames))

\* the DataFrame a finished batch wrote: one row per scene of its slice that was
\* not skipped
BatchRows(total, start, bs, skipped) ==
    LET idx == PySliceIdx(total, start, start + bs)
    IN  SelectSeq([ j \in 1..Len(idx) |-> [SEQUENCE |-> idx[j]] ],
                  LAMBDA row : row.SEQUENCE \notin skipped)

\* batch_save_dir after every batch of a run over `total` scenes has finished
InitMerge ==
    /\ mode \in Modes
    /\ batch_size \in 1..MaxBatch
    /\ \E total \in 0..MaxTotal : \E skipped \in SUBSET (0..(total - 1)) :
          m_initial =
              [ n \in { FileName(mode, s, batch_size)
                          : s \in SeqRange(PyRange(0, total, batch_size)) }
                  |-> LET s == CHOOSE s \in SeqRange(PyRange(0, total, batch_size))
                                    : FileName(mode, s, batch_size) = n
                      IN  BatchRows(total, s, batch_size, skipped) ]
    /\ m_scratch = m_initial
    /\ m_pc = "call"
    /\ feature_files = << >>
    /\ m_k = 0
    /\ all_features = << >>
    /\ m_final = [exists |-> FALSE, rows |-> << >>, files |-> << >>]
    /\ m_crashes = 0
    /\ m_reads = EmptyDir
    /\ m_removed = {}
    /\ sequences = << >> /\ small = FALSE /\ social_test = FALSE
    /\ features_small_size = 1 /\ main_pc = "merge" /\ workers = << >>
    /\ scratch = EmptyDir
    /\ CfIdle /\ VtIdle

mergeFixed == << sequences, batch_size, small, social_test, features_small_size, mode,
                 main_pc, workers, scratch, m_initial, cf, cf_overlap, vt >>

\* feature_files = os.listdir(batch_save_dir); all_features = []
MergeListdir ==
    /\ m_pc = "call"
    /\ feature_files' \in ListingOrders(DOMAIN m_scratch)
    /\ all_features' = << >>
    /\ m_k' = 1
    /\ m_reads' = [ n \in DOMAIN m_scratch |-> 0 ]
    /\ m_removed' = {}
    /\ m_pc' = "loop"
    /\ UNCHANGED << mergeFixed, m_scratch, m_final, m_crashes >>

\* the loop's filter, then df = pd.read_pickle(file_path); all_features.append(df)
MergeRead ==
    /\ m_pc = "loop"
    /\ m_k <= Len(feature_files)
    /\ LET feature_file == feature_files[m_k] IN
       IF ~EndsWith(feature_file, DotPkl) \/ ~Contains(feature_file, mode)
       THEN /\ m_k' = m_k + 1
            /\ UNCHANGED << all_features, m_reads, m_pc >>
       ELSE /\ all_features' = Append(all_features,
                                   [file |-> feature_file, rows |-> m_scratch[feature_file]])
            /\ m_reads' = [m_reads EXCEPT ![feature_file] = @ + 1]
            /\ m_pc' = "remove"
            /\ UNCHANGED m_k
    /\ UNCHANGED << mergeFixed, m_scratch, feature_files, m_final, m_crashes, m_removed >>

\* os.remove(file_path), the last statement of the loop body
MergeRemove ==
    /\ m_pc = "remove"
    /\ m_scratch' = RemoveFile(m_scratch, feature_files[m_k])
    /\ m_removed' = m_removed \cup { feature_files[m_k] }
    /\ m_k' = m_k + 1
    /\ m_pc' = "loop"
    /\ UNCHANGED << mergeFixed, feature_files, all_features, m_final, m_crashes, m_reads >>

\* all_features_df = pd.concat(all_features, ignore_index=True), which raises
\* ValueError on an empty list; all_features_df.to_pickle(...)
MergeConcat ==
    /\ m_pc = "loop"
    /\ m_k > Len(feature_files)
    /\ IF all_features = << >>
       THEN /\ m_pc' = "raised"
            /\ UNCHANGED m_final
       ELSE /\ m_final' = [exists |-> TRUE, rows |-> ConcatRows(all_features),
                           files |-> [ i \in 1..Len(all_features) |-> all_features[i].file ]]
            /\ m_pc' = "done"
    /\ UNCHANGED << mergeFixed, m_scratch, feature_files, m_k, all_features, m_crashes,
                    m_reads, m_removed >>

\* the process is interrupted inside the loop: what it held in memory is gone
MergeCrash ==
    /\ m_pc \in { "loop", "remove" }
    /\ m_crashes < MaxCrashes
    /\ m_crashes' = m_crashes + 1
    /\ all_features' = << >>
    /\ m_pc' = "crashed"
    /\ UNCHANGED << mergeFixed, m_scratch, feature_files, m_k, m_final, m_reads, m_removed >>

\* merge_saved_features is called again on the same directory
MergeRetry ==
    /\ m_pc = "crashed"
    /\ m_pc' = "call"
    /\ UNCHANGED << mergeFixed, m_scratch, feature_files, m_k, all_features, m_final,
                    m_crashes, m_reads, m_removed >>

NextMerge ==
    \/ MergeListdir
    \/ MergeRead
    \/ MergeRemove
    \/ MergeConcat
    \/ MergeCrash
    \/ MergeRetry

SpecMerge == InitMerge /\ [][NextMerge]_vars

----------------------------------------------------------------------------
(* compute_features on one scene *)

Rows == [TRACK_ID : TrackIds, OBJECT_TYPE : Types]

Scenes(n) == UNION { [1..k -> Rows] : k \in 1..n }

InitSocial ==
    /\ \E social \in BOOLEAN : \E df \in Scenes(MaxRows) : cf = CfFrame(social, df)
    /\ cf_overlap \in SUBSET TrackIds
    /\ mode \in Modes
    /\ PipeIdle /\ MergeIdle /\ VtIdle

\* the next statement of the call
CfStatement ==
    /\ cf.pc # "idle"
    /\ ~CfDone(cf)
    /\ cf' = CfStep(cf)
    /\ UNCHANGED << pipeVars, mode, mergeVars, cf_overlap, vt >>

NextSocial == CfStatement

SpecSocial == InitSocial /\ [][NextSocial]_vars

----------------------------------------------------------------------------
(* compute_vel_track(self, av_track, obs_len) on one track *)

PyIntValue(n) == [ty |-> "int", items |-> << n >>]
PyRangeObject(n) == [ty |-> "range", items |-> << n >>]

\* a - b: defined for two ints; a range (or a tuple) has no subtraction
PySub(a, b, l) ==
    IF a.ty = "int" /\ b.ty = "int"
    THEN Return(PyIntValue(a.items[1] - b.items[1]))
    ELSE Raise("TypeError", l)

\* the names bound at module level when the function runs (imports and defs)
ModuleGlobals ==
    { "os", "shutil", "tempfile", "time", "argparse", "Parallel", "delayed", "np", "pd",
      "pkl", "RAW_DATA_FORMAT", "_FEATURES_SMALL_SIZE", "MapFeaturesUtils",
      "SocialFeaturesUtils", "doOverlap", "parse_arguments", "load_seq_save_features",
      "compute_vel_track", "compute_features" }

VtFrame(track, n) ==
    [pc |-> "L149", av_track |-> track, obs_len |-> n, i |-> 0,
     av_velocities |-> << >>, out |-> Return(NoneValue)]

VtStep(f) ==
    CASE f.pc = "L149" ->
            \* i = 0
            [f EXCEPT !.i = 0, !.pc = "L150"]
      [] f.pc = "L150" ->
            \* av_velocities = [None] * (obs_len - 1)
            [f EXCEPT !.av_velocities =
                          [ j \in 1..(IF f.obs_len > 1 THEN f.obs_len - 1 ELSE 0)
                              |-> NoneValue ],
                      !.pc = "L151"]
      [] f.pc = "L151" ->
            \* while (i != range(obs_len) - 1):
            LET bound == PySub(PyRangeObject(f.obs_len), PyIntValue(1), 151)
            IN  IF bound.kind = "raise"
                THEN [f EXCEPT !.pc = "raised", !.out = bound]
                ELSE IF PyIntValue(f.i) # bound.value
                THEN [f EXCEPT !.pc = "L153"]
                ELSE [f EXCEPT !.pc = "returned",
                               !.out = Return([ty |-> "list", items |-> f.av_velocities])]
      [] f.pc = "L153" ->
            \* av_track[i, raw_data_format["X"]]: the module binds RAW_DATA_FORMAT only
            IF "raw_data_format" \notin ModuleGlobals
            THEN [f EXCEPT !.pc = "raised", !.out = Raise("NameError", 154)]
            ELSE \* time_t1 and time_t2 are 1-tuples (trailing commas, lines 163-168)
                 \* and the divisor is time_t2 - time_t2 (lines 171-172)
                 LET time_t2 == [ty |-> "tuple",
                                 items |-> << f.av_track[f.i + 2].TIMESTAMP >>]
                     dt == PySub(time_t2, time_t2, 171)
                 IN  IF dt.kind = "raise"
                     THEN [f EXCEPT !.pc = "raised", !.out = dt]
                     ELSE [f EXCEPT !.i = f.i + 1, !.pc = "L151"]
      [] OTHER -> f

VtDone(f) == f.pc \in { "raised", "returned" }

Samples == [X : 0..1, TIMESTAMP : 0..MaxTime]

InitVel ==
    /\ \E n \in 2..MaxObs : \E track \in [1..n -> Samples] : vt = VtFrame(track, n)
    /\ mode \in Modes
    /\ PipeIdle /\ MergeIdle /\ CfIdle

\* the next statement of the call
VtStatement ==
    /\ vt.pc # "idle"
    /\ ~VtDone(vt)
    /\ vt' = VtStep(vt)
    /\ UNCHANGED << pipeVars, mode, mergeVars, cf, cf_overlap >>

NextVel == VtStatement

SpecVel == InitVel /\ [][NextVel]_vars

----------------------------------------------------------------------------
(* Properties of the main block and its workers (Spec) *)

AllRan == main_pc \in { "raised", "done", "merge" }

BatchIdx(s) == workers[s].idx

BatchSlice(s) == [ j \in 1..Len(BatchIdx(s)) |-> sequences[BatchIdx(s)[j] + 1] ]

LastStart == CHOOSE s \in DOMAIN workers : \A t \in DOMAIN workers : t <= s

Partition ==
    /\ \A s \in DOMAIN workers :
          /\ \A j \in 1..(Len(BatchIdx(s)) - 1) : BatchIdx(s)[j + 1] = BatchIdx(s)[j] + 1
          /\ BatchIdx(s) # << >> => BatchIdx(s)[1] = s
          /\ Len(BatchIdx(s)) <= batch_size
          /\ Len(BatchIdx(s)) < batch_size => s = LastStart
    /\ \A s, t \in DOMAIN workers :
          s # t => SeqRange(BatchIdx(s)) \cap SeqRange(BatchIdx(t)) = {}
    /\ UNION { SeqRange(BatchIdx(s)) : s \in DOMAIN workers } = 0..(Len(sequences) - 1)

\* C1 as stated: for every listing and batch_size >= 1 the dispatched batches are
\* contiguous, pairwise disjoint, cover every index of the listing exactly once,
\* and only the last one may be shorter than batch_size.
C1_Original == AllRan => Partition

\* C1 amended: the same, when --small is not given (num_sequences is the length
\* of the listing).
C1_Partition == (AllRan /\ ~small) => Partition

C1_Witness ==
    /\ AllRan /\ ~small
    /\ Cardinality(DOMAIN workers) >= 2
    /\ Len(BatchIdx(LastStart)) >= 1
    /\ Len(BatchIdx(LastStart)) < batch_size

WellFormed(seq) == EndsWith(seq, DotCsv) /\ PyInt(SplitDot0(seq)).kind = "return"

\* the SEQUENCE values the scenes of a slice stand for, in slice order
RECURSIVE SequenceIds(_)
SequenceIds(slice) ==
    IF slice = << >> THEN << >>
    ELSE (IF WellFormed(slice[1])
          THEN << PyInt(SplitDot0(slice[1])).value.items[1] >> ELSE << >>)
         \o SequenceIds(Tail(slice))

C4_MalformedNotFatal ==
    \A s \in DOMAIN workers :
        workers[s].pc = "failed" => WellFormed(BatchSlice(s)[workers[s].at])

\* C9: under every order in which the workers run, a batch's artifact file is
\* written by that batch alone and holds exactly its accumulator; distinct batches
\* name distinct files; a failed worker has no artifact and leaves the artifacts of
\* the others as they wrote them.
C9_WorkerIsolation ==
    /\ \A s, t \in DOMAIN workers :
          s # t => FileName(mode, s, batch_size) # FileName(mode, t, batch_size)
    /\ \A s \in DOMAIN workers :
          LET name == FileName(mode, s, batch_size) IN
          /\ workers[s].pc = "done" =>
                name \in DOMAIN scratch /\ scratch[name] = workers[s].data
          /\ workers[s].pc \in { "idle", "failed" } => name \notin DOMAIN scratch
    /\ \A name \in DOMAIN scratch :
          \E s \in DOMAIN workers :
              name = FileName(mode, s, batch_size) /\ workers[s].pc = "done"

C9_Witness ==
    \E s, t \in DOMAIN workers :
        /\ workers[s].pc = "failed"
        /\ workers[t].pc = "done"
        /\ FileName(mode, t, batch_size) \in DOMAIN scratch
        /\ FileName(mode, s, batch_size) \notin DOMAIN scratch

----------------------------------------------------------------------------
(* Properties of merge_saved_features (SpecMerge) *)

\* the batch artifacts of m_initial in ascending batch-start order, concatenated
RECURSIVE AscendingRows(_)
AscendingRows(start) ==
    IF start > MaxTotal THEN << >>
    ELSE (IF FileName(mode, start, batch_size) \in DOMAIN m_initial
          THEN m_initial[FileName(mode, start, batch_size)] ELSE << >>)
         \o AscendingRows(start + 1)

\* C2: the merged artifact holds the rows of all batch artifacts, in ascending
\* batch-start order with the order inside each batch kept, whatever order the
\* directory lists the files in.
C2_AscendingOrder ==
    (m_pc = "done" /\ m_crashes = 0) => m_final.rows = AscendingRows(0)

\* C8: with no intermediate artifact in the scratch location the merge ends
\* without an error, having written a final artifact of zero rows.
C8_EmptyScratch ==
    (DOMAIN m_initial = {} /\ m_pc \in { "done", "raised" })
        => (m_pc = "done" /\ m_final.exists /\ m_final.rows = << >>)

----------------------------------------------------------------------------
(* Properties of compute_features in social_test mode (SpecSocial) *)

\* C5: for a scene with a reference (AV) track, the call gets through the pruning
\* loop with agent_ids holding exactly the non-reference tracks doOverlap accepts
\* and drop_counter the number of non-reference tracks removed.
C5_PrunedAgents ==
    (/\ CfDone(cf) /\ cf.social_test
     /\ \E i \in 1..Len(cf.df) : cf.df[i].OBJECT_TYPE = "AV")
    => LET ids == { cf.df[i].TRACK_ID : i \in 1..Len(cf.df) } \ { cf.av_id }
       IN  /\ cf.out.kind = "return"
           /\ SeqRange(cf.agent_ids) = ids \cap cf_overlap
           /\ cf.drop_counter = Cardinality(ids \ cf_overlap)

----------------------------------------------------------------------------
(* Properties of compute_vel_track (SpecVel) *)

\* errors of the program text itself, as opposed to errors reported about the data
ProgrammingErrors == { "TypeError", "NameError", "UnboundLocalError" }

\* C6: a track with a zero or negative elapsed time between two consecutive
\* samples ends the call with an error reported about that data (no velocity, and
\* no failure of the program text).
C6_ElapsedTimeChecked ==
    (/\ VtDone(vt)
     /\ \E j \in 1..(vt.obs_len - 1) :
           vt.av_track[j + 1].TIMESTAMP - vt.av_track[j].TIMESTAMP <= 0)
    => (vt.out.kind = "raise" /\ vt.out.exc \notin ProgrammingErrors)

\* C10: for obs_len >= 2 the loop ends normally after step obs_len-2, with every
\* one of the obs_len-1 velocity slots filled.
C10_LoopTerminates ==
    VtDone(vt) =>
        /\ vt.pc = "returned"
        /\ vt.i = vt.obs_len - 1
        /\ Len(vt.av_velocities) = vt.obs_len - 1
        /\ \A j \in 1..Len(vt.av_velocities) : vt.av_velocities[j] # NoneValue

====
